---- MODULE Spec2Model ----
(***************************************************************************)
(* Gesture-to-transform state machine of use-pinch-zoom:                   *)
(*   - the hook useImageGesture          (part_000, lines 297-349)         *)
(*   - the component ImageViewerDialog   (part_000, lines 52-251)          *)
(*                                                                         *)
(* Numbers.  Scales are kept in hundredths (scale 1 is 100, 0.5 is 50),    *)
(* wheelSensitivity in hundredths of scale per unit of wheel delta (0.01   *)
(* is 1), positions in whole pixels.                                       *)
(*                                                                         *)
(* React.  A useState cell holds the state produced by the updates         *)
(* enqueued so far (hScale, hPosition, dScale, dPosition, isLoading).  The *)
(* identifiers `scale', `position', `isLoading' that the handlers, the     *)
(* style and the recognizer configuration read are the values of the last  *)
(* render (hRender, dRender); a render is a step of its own.  A useEffect  *)
(* body runs after the commit of the render that changed its dependencies  *)
(* and before any later render of the component.                           *)
(***************************************************************************)
EXTENDS Integers, Sequences, FiniteSets, TLC

\* Largest drag offset delivered by the recognizer, in steps of 50px (the
\* offsets start at -50px).
MaxDrag == 1
\* Largest wheel delta delivered by the recognizer, in steps of 100.
MaxWheel == 1

\* GestureConfig values: the defaults (minScale 1, maxScale 5,
\* wheelSensitivity 0.01), the custom minScale 0.5 of the tests, and a
\* configuration with another wheel sensitivity.
Configs ==
    { [minScale |-> 100, maxScale |-> 500, wheelSensitivity |-> 1],
      [minScale |-> 50,  maxScale |-> 200, wheelSensitivity |-> 1],
      [minScale |-> 100, maxScale |-> 300, wheelSensitivity |-> 2] }

\* The dialog has no wheelSensitivity option: its onWheel multiplies by 0.01.
DialogWheelSensitivity == 1

\* offset[0] of a pinch event: below every minScale, inside, above every maxScale.
PinchOffsets == {25, 100, 200, 500, 1000}
\* offset of a drag event.
DragOffsets == {50 * i : i \in (0 - 1)..MaxDrag}
\* delta[1] of a wheel event.
WheelDeltas == {100 * i : i \in (0 - MaxWheel)..MaxWheel}
\* src prop of the dialog.
Sources == {"a.jpg", "b.jpg"}

Origin == [x |-> 0, y |-> 0]

VARIABLES
    component,      \* which of the two independent components this run drives
    cfg,            \* options of the instance, fixed at creation
    fresh,          \* the instance was created and nothing has happened since
    hScale,         \* hook: useState cell of scale
    hPosition,      \* hook: useState cell of position
    hRender,        \* hook: values of the last render
    open,           \* dialog: open prop
    src,            \* dialog: src prop
    dScale,         \* dialog: useState cell of scale
    dPosition,      \* dialog: useState cell of position
    isLoading,      \* dialog: useState cell of isLoading
    dRender,        \* dialog: values of the last render
    effectPending,  \* dialog: the reset effect is scheduled and has not run
    mounted,        \* dialog: content (container and img) is in the DOM
    loadPending     \* dialog: the mounted img has not delivered load yet

hookVars == <<hScale, hPosition, hRender>>
dialogVars == <<open, src, dScale, dPosition, isLoading, dRender,
                effectPending, mounted, loadPending>>
vars == <<component, cfg, fresh, hScale, hPosition, hRender, open, src, dScale,
          dPosition, isLoading, dRender, effectPending, mounted, loadPending>>

\* An event of the hook leaves the dialog alone, and the other way round; the
\* options of an instance never change.
HookFrame ==
    /\ fresh' = FALSE
    /\ UNCHANGED <<component, cfg>>
    /\ UNCHANGED dialogVars

DialogFrame ==
    /\ fresh' = FALSE
    /\ UNCHANGED <<component, cfg>>
    /\ UNCHANGED hookVars

----------------------------------------------------------------------------
\* Pure helpers

Max(a, b) == IF a >= b THEN a ELSE b
Min(a, b) == IF a <= b THEN a ELSE b

\* A clamp that forgets the upper bound.
ClampNoUpper(v, lo, hi) == Max(v, lo)

\* Math.min(Math.max(v, minScale), maxScale)
Clamp(v, lo, hi) == Min(Max(v, lo), hi)

\* JavaScript Number -> string of a scale kept in hundredths.
FmtScale(s) ==
    LET i == s \div 100
        f == s % 100
    IN  IF f = 0 THEN ToString(i)
        ELSE IF f % 10 = 0 THEN ToString(i) \o "." \o ToString(f \div 10)
        ELSE IF f < 10 THEN ToString(i) \o ".0" \o ToString(f)
        ELSE ToString(i) \o "." \o ToString(f)

\* `translate(${position.x}px, ${position.y}px) scale(${scale})`
Transform(position, scale) ==
    "translate(" \o ToString(position.x) \o "px, " \o ToString(position.y)
        \o "px) scale(" \o FmtScale(scale) \o ")"

\* A transition that compares with the literal 1 instead of minScale.
TransitionLiteralOne(scale, minScale) ==
    IF scale = 100 THEN "transform 0.2s ease-out" ELSE "none"

\* scale === minScale ? 'transform 0.2s ease-out' : 'none'
Transition(scale, minScale) ==
    IF scale = minScale THEN "transform 0.2s ease-out" ELSE "none"

----------------------------------------------------------------------------
\* useImageGesture

\* Initial useState values that ignore the minScale option.
HookInitialStateLiteralOne(c) == [scale |-> 100, position |-> Origin]

\* useState(minScale), useState({ x: 0, y: 0 })
HookInitialState(c) == [scale |-> c.minScale, position |-> Origin]

\* A render that hands the recognizer an always-enabled drag.
HookRenderDragAlways(scale, position, c) ==
    [ scale       |-> scale,
      position    |-> position,
      style       |-> [ transform  |-> Transform(position, scale),
                        transition |-> Transition(scale, c.minScale) ],
      dragEnabled |-> TRUE ]

\* What one render of the hook hands out: the scale and position the handlers
\* close over, the returned style, and the recognizer's drag.enabled.
HookRender(scale, position, c) ==
    [ scale       |-> scale,
      position    |-> position,
      style       |-> [ transform  |-> Transform(position, scale),
                        transition |-> Transition(scale, c.minScale) ],
      dragEnabled |-> scale > c.minScale ]

\* A reset that forgets the position.
HookResetScaleOnly ==
    /\ component = "hook"
    /\ HookFrame
    /\ hScale' = cfg.minScale
    /\ UNCHANGED <<hPosition, hRender>>

\* reset()
HookReset ==
    /\ component = "hook"
    /\ HookFrame
    /\ hScale' = cfg.minScale
    /\ hPosition' = Origin
    /\ UNCHANGED hRender

\* A pinch handler that adds the pinch offset to the scale it holds.
HookOnPinchRelative(s) ==
    /\ hScale' = Clamp(hScale + s - 100, cfg.minScale, cfg.maxScale)
    /\ UNCHANGED <<hPosition, hRender>>

\* onPinch: ({ offset: [s] })
HookOnPinchUpdate(s) ==
    /\ hScale' = Clamp(s, cfg.minScale, cfg.maxScale)
    /\ UNCHANGED <<hPosition, hRender>>

\* onPinch delivered to the hook.
HookOnPinch(s) ==
    /\ component = "hook"
    /\ HookOnPinchUpdate(s)
    /\ HookFrame

\* A drag handler whose guard also lets the drag through at minScale.
HookOnDragAtMin(x, y) ==
    /\ IF hRender.scale >= cfg.minScale
         THEN hPosition' = [x |-> x, y |-> y]
         ELSE UNCHANGED hPosition
    /\ UNCHANGED <<hScale, hRender>>

\* onDrag: ({ offset: [x, y] })
HookOnDragUpdate(x, y) ==
    /\ IF hRender.scale > cfg.minScale
         THEN hPosition' = [x |-> x, y |-> y]
         ELSE UNCHANGED hPosition
    /\ UNCHANGED <<hScale, hRender>>

\* onDrag delivered to the hook.
HookOnDrag(x, y) ==
    /\ component = "hook"
    /\ HookOnDragUpdate(x, y)
    /\ HookFrame

\* A pinch-end handler that recentres whatever the scale.
HookOnPinchEndAlways ==
    /\ hPosition' = Origin
    /\ UNCHANGED <<hScale, hRender>>

\* onPinchEnd: ()
HookOnPinchEndUpdate ==
    /\ IF hRender.scale <= cfg.minScale
         THEN hPosition' = Origin
         ELSE UNCHANGED hPosition
    /\ UNCHANGED <<hScale, hRender>>

\* onPinchEnd delivered to the hook.
HookOnPinchEnd ==
    /\ component = "hook"
    /\ HookOnPinchEndUpdate
    /\ HookFrame

\* A wheel handler that reads the scale of the last render instead of the
\* scale cell (a plain update in place of the functional one).
HookOnWheelFromRender(dy) ==
    /\ hScale' = Clamp(hRender.scale - dy * cfg.wheelSensitivity,
                       cfg.minScale, cfg.maxScale)
    /\ UNCHANGED <<hPosition, hRender>>

\* onWheel: ({ delta: [, dy] }), a functional update of the scale cell
HookOnWheelUpdate(dy) ==
    /\ hScale' = Clamp(hScale - dy * cfg.wheelSensitivity,
                       cfg.minScale, cfg.maxScale)
    /\ UNCHANGED <<hPosition, hRender>>

\* onWheel delivered to the hook.
HookOnWheel(dy) ==
    /\ component = "hook"
    /\ HookOnWheelUpdate(dy)
    /\ HookFrame

\* Re-render of the component that uses the hook, after an update that
\* changed a state cell.
HookRenderStep ==
    /\ component = "hook"
    /\ HookFrame
    /\ <<hRender.scale, hRender.position>> # <<hScale, hPosition>>
    /\ hRender' = HookRender(hScale, hPosition, cfg)
    /\ UNCHANGED <<hScale, hPosition>>

----------------------------------------------------------------------------
\* ImageViewerDialog

\* useState(minScale), useState({ x: 0, y: 0 }), useState(true)
DialogInitialState(c) ==
    [scale |-> c.minScale, position |-> Origin, isLoading |-> TRUE]

\* A render that leaves the img visible while the indicator is shown.
DialogRenderAlwaysVisible(openProp, scale, position, loading, c) ==
    [ open             |-> openProp,
      scale            |-> scale,
      position         |-> position,
      loadingIndicator |-> loading,
      style            |-> [ transform  |-> Transform(position, scale),
                             transition |-> Transition(scale, c.minScale),
                             visibility |-> "visible" ],
      dragEnabled      |-> scale > c.minScale ]

\* What one render of the dialog hands out: the open prop passed to the dialog
\* primitive, the scale the handlers close over, whether the loading indicator
\* is rendered, the style of the img, and the recognizer's drag.enabled.
DialogRender(openProp, scale, position, loading, c) ==
    [ open             |-> openProp,
      scale            |-> scale,
      position         |-> position,
      loadingIndicator |-> loading,
      style            |-> [ transform  |-> Transform(position, scale),
                             transition |-> Transition(scale, c.minScale),
                             visibility |-> IF loading THEN "hidden"
                                                       ELSE "visible" ],
      dragEnabled      |-> scale > c.minScale ]

\* The host flips the open prop to true (possibly with another src) and the
\* dialog renders with it; the reset effect is scheduled because `open' is one
\* of its dependencies.  The dialog primitive puts the content into the DOM
\* in a later pass (Mount).
Open(newSrc) ==
    /\ component = "dialog"
    /\ DialogFrame
    /\ ~open
    /\ ~effectPending
    /\ open' = TRUE
    /\ src' = newSrc
    /\ effectPending' = TRUE
    /\ dRender' = DialogRender(TRUE, dScale, dPosition, isLoading, cfg)
    /\ UNCHANGED <<dScale, dPosition, isLoading, mounted, loadPending>>

\* A close that puts the view state back to its initial values.
CloseResets ==
    /\ component = "dialog"
    /\ DialogFrame
    /\ open
    /\ ~effectPending
    /\ open' = FALSE
    /\ mounted' = FALSE
    /\ loadPending' = FALSE
    /\ effectPending' = TRUE
    /\ dScale' = cfg.minScale
    /\ dPosition' = Origin
    /\ dRender' = DialogRender(FALSE, dScale', dPosition', isLoading, cfg)
    /\ UNCHANGED <<src, isLoading>>

\* The host flips the open prop to false: the dialog renders with it, the
\* primitive removes the content (the img with it), and the effect is
\* scheduled again because `open' changed.
Close ==
    /\ component = "dialog"
    /\ DialogFrame
    /\ open
    /\ ~effectPending
    /\ open' = FALSE
    /\ mounted' = FALSE
    /\ loadPending' = FALSE
    /\ effectPending' = TRUE
    /\ dRender' = DialogRender(FALSE, dScale, dPosition, isLoading, cfg)
    /\ UNCHANGED <<src, dScale, dPosition, isLoading>>

\* A reset effect that leaves the position alone.
OpenEffectKeepsPosition ==
    /\ component = "dialog"
    /\ DialogFrame
    /\ effectPending
    /\ effectPending' = FALSE
    /\ IF open
         THEN /\ dScale' = cfg.minScale
              /\ isLoading' = TRUE
              /\ UNCHANGED dPosition
         ELSE UNCHANGED <<dScale, dPosition, isLoading>>
    /\ UNCHANGED <<open, src, dRender, mounted, loadPending>>

\* useEffect(() => { if (open) { ... } }, [open, minScale])
OpenEffect ==
    /\ component = "dialog"
    /\ DialogFrame
    /\ effectPending
    /\ effectPending' = FALSE
    /\ IF open
         THEN /\ dScale' = cfg.minScale
              /\ dPosition' = Origin
              /\ isLoading' = TRUE
         ELSE UNCHANGED <<dScale, dPosition, isLoading>>
    /\ UNCHANGED <<open, src, dRender, mounted, loadPending>>

\* The dialog primitive renders its content after the open render has been
\* committed and its effects have run: the container and the img enter the
\* DOM and the img starts loading src.
Mount ==
    /\ component = "dialog"
    /\ DialogFrame
    /\ open
    /\ ~mounted
    /\ ~effectPending
    /\ mounted' = TRUE
    /\ loadPending' = TRUE
    /\ UNCHANGED <<open, src, dScale, dPosition, isLoading, dRender,
                   effectPending>>

\* A src change that also shows the loading indicator again.
ChangeSrcShowsLoading(newSrc) ==
    /\ component = "dialog"
    /\ DialogFrame
    /\ open
    /\ ~effectPending
    /\ newSrc # src
    /\ src' = newSrc
    /\ isLoading' = TRUE
    /\ loadPending' = mounted
    /\ dRender' = DialogRender(open, dScale, dPosition, TRUE, cfg)
    /\ UNCHANGED <<open, dScale, dPosition, effectPending, mounted>>

\* The host passes another src while the dialog is open: the dialog renders
\* with it and a mounted img starts loading it.  src is not a dependency of
\* the reset effect.
ChangeSrc(newSrc) ==
    /\ component = "dialog"
    /\ DialogFrame
    /\ open
    /\ ~effectPending
    /\ newSrc # src
    /\ src' = newSrc
    /\ loadPending' = mounted
    /\ dRender' = DialogRender(open, dScale, dPosition, isLoading, cfg)
    /\ UNCHANGED <<open, dScale, dPosition, isLoading, effectPending, mounted>>

\* A load handler that also puts the view back to its initial values.
LoadCompleteResetsView ==
    /\ component = "dialog"
    /\ mounted
    /\ loadPending
    /\ isLoading' = FALSE
    /\ loadPending' = FALSE
    /\ dScale' = cfg.minScale
    /\ dPosition' = Origin
    /\ UNCHANGED <<open, src, dRender, effectPending, mounted>>
    /\ DialogFrame

\* onLoad={() => setIsLoading(false)}
LoadComplete ==
    /\ component = "dialog"
    /\ DialogFrame
    /\ mounted
    /\ loadPending
    /\ isLoading' = FALSE
    /\ loadPending' = FALSE
    /\ UNCHANGED <<open, src, dScale, dPosition, dRender, effectPending,
                   mounted>>

\* The img fails to load src: it delivers `error', for which the img has no
\* handler, and no load event follows.
LoadError ==
    /\ component = "dialog"
    /\ DialogFrame
    /\ mounted
    /\ loadPending
    /\ loadPending' = FALSE
    /\ UNCHANGED <<open, src, dScale, dPosition, isLoading, dRender,
                   effectPending, mounted>>

\* The recognizer is bound to the container by an effect of the same flush
\* as the reset effect, so it delivers events once the content is in the DOM
\* and the effects have run.
GestureBound == component = "dialog" /\ mounted /\ ~effectPending

\* A pinch that also takes the loading indicator away.
DialogOnPinchUpdateClearsLoading(s) ==
    /\ dScale' = Clamp(s, cfg.minScale, cfg.maxScale)
    /\ isLoading' = FALSE
    /\ UNCHANGED <<open, src, dPosition, dRender, effectPending, mounted,
                   loadPending>>

\* onPinch: ({ offset: [s] })
DialogOnPinchUpdate(s) ==
    /\ dScale' = Clamp(s, cfg.minScale, cfg.maxScale)
    /\ UNCHANGED <<open, src, dPosition, isLoading, dRender, effectPending,
                   mounted, loadPending>>

\* onDrag: ({ offset: [x, y] })
DialogOnDragUpdate(x, y) ==
    /\ IF dRender.scale > cfg.minScale
         THEN dPosition' = [x |-> x, y |-> y]
         ELSE UNCHANGED dPosition
    /\ UNCHANGED <<open, src, dScale, isLoading, dRender, effectPending,
                   mounted, loadPending>>

\* A pinch end that also snaps the scale back to minScale.
DialogOnPinchEndUpdateSnapsScale ==
    /\ dPosition' = IF dRender.scale <= cfg.minScale THEN Origin ELSE dPosition
    /\ dScale' = cfg.minScale
    /\ UNCHANGED <<open, src, isLoading, dRender, effectPending, mounted,
                   loadPending>>

\* onPinchEnd: ()
DialogOnPinchEndUpdate ==
    /\ IF dRender.scale <= cfg.minScale
         THEN dPosition' = Origin
         ELSE UNCHANGED dPosition
    /\ UNCHANGED <<open, src, dScale, isLoading, dRender, effectPending,
                   mounted, loadPending>>

\* A wheel handler with twice the sensitivity.
DialogOnWheelUpdateDouble(dy) ==
    /\ dScale' = Clamp(dScale - dy * 2 * DialogWheelSensitivity,
                       cfg.minScale, cfg.maxScale)
    /\ UNCHANGED <<open, src, dPosition, isLoading, dRender, effectPending,
                   mounted, loadPending>>

\* onWheel: ({ delta: [, dy] }), a functional update of the scale cell
DialogOnWheelUpdate(dy) ==
    /\ dScale' = Clamp(dScale - dy * DialogWheelSensitivity,
                       cfg.minScale, cfg.maxScale)
    /\ UNCHANGED <<open, src, dPosition, isLoading, dRender, effectPending,
                   mounted, loadPending>>

\* The four events as the recognizer delivers them to the dialog.
DialogOnPinch(s) == GestureBound /\ DialogOnPinchUpdate(s) /\ DialogFrame

DialogOnDrag(x, y) == GestureBound /\ DialogOnDragUpdate(x, y) /\ DialogFrame

DialogOnPinchEnd == GestureBound /\ DialogOnPinchEndUpdate /\ DialogFrame

DialogOnWheel(dy) == GestureBound /\ DialogOnWheelUpdate(dy) /\ DialogFrame

\* Re-render of the dialog after an update that changed a state cell; pending
\* effects are flushed before a render starts.
DialogRenderStep ==
    /\ component = "dialog"
    /\ DialogFrame
    /\ ~effectPending
    /\ <<dRender.scale, dRender.position, dRender.loadingIndicator>>
          # <<dScale, dPosition, isLoading>>
    /\ dRender' = DialogRender(open, dScale, dPosition, isLoading, cfg)
    /\ UNCHANGED <<open, src, dScale, dPosition, isLoading, effectPending,
                   mounted, loadPending>>

----------------------------------------------------------------------------
\* Specification

Init ==
    /\ component \in {"hook", "dialog"}
    /\ cfg \in Configs
    /\ fresh = TRUE
    /\ hScale = HookInitialState(cfg).scale
    /\ hPosition = HookInitialState(cfg).position
    /\ hRender = HookRender(hScale, hPosition, cfg)
    /\ dScale = DialogInitialState(cfg).scale
    /\ dPosition = DialogInitialState(cfg).position
    /\ isLoading = DialogInitialState(cfg).isLoading
    /\ src \in Sources
    /\ IF component = "dialog"
         THEN /\ cfg.wheelSensitivity = DialogWheelSensitivity
              /\ open \in BOOLEAN
              /\ effectPending = TRUE
         ELSE /\ src = "a.jpg"
              /\ open = FALSE
              /\ effectPending = FALSE
    /\ mounted = open
    /\ loadPending = open
    /\ dRender = DialogRender(open, dScale, dPosition, isLoading, cfg)

Next ==
    \/ \E s \in PinchOffsets : HookOnPinch(s)
    \/ \E x \in DragOffsets, y \in DragOffsets : HookOnDrag(x, y)
    \/ HookOnPinchEnd
    \/ \E dy \in WheelDeltas : HookOnWheel(dy)
    \/ HookReset
    \/ HookRenderStep
    \/ \E newSrc \in Sources : Open(newSrc)
    \/ Close
    \/ OpenEffect
    \/ Mount
    \/ \E newSrc \in Sources : ChangeSrc(newSrc)
    \/ LoadComplete
    \/ LoadError
    \/ \E s \in PinchOffsets : DialogOnPinch(s)
    \/ \E x \in DragOffsets, y \in DragOffsets : DialogOnDrag(x, y)
    \/ DialogOnPinchEnd
    \/ \E dy \in WheelDeltas : DialogOnWheel(dy)
    \/ DialogRenderStep

Spec == Init /\ [][Next]_vars

----------------------------------------------------------------------------
\* The dialog under a host that also changes the minScale prop between
\* renders.

\* The host passes another minScale (and maxScale): the dialog renders with
\* it, and the reset effect is scheduled because `minScale' is one of its
\* dependencies.
ChangeMinScale(newCfg) ==
    /\ component = "dialog"
    /\ ~effectPending
    /\ newCfg.wheelSensitivity = DialogWheelSensitivity
    /\ newCfg.minScale # cfg.minScale
    /\ cfg' = newCfg
    /\ fresh' = FALSE
    /\ effectPending' = TRUE
    /\ dRender' = DialogRender(open, dScale, dPosition, isLoading, newCfg)
    /\ UNCHANGED <<component, hScale, hPosition, hRender, open, src, dScale,
                   dPosition, isLoading, mounted, loadPending>>

NextProps ==
    \/ \E s \in PinchOffsets : HookOnPinch(s)
    \/ \E x \in DragOffsets, y \in DragOffsets : HookOnDrag(x, y)
    \/ HookOnPinchEnd
    \/ \E dy \in WheelDeltas : HookOnWheel(dy)
    \/ HookReset
    \/ HookRenderStep
    \/ \E newSrc \in Sources : Open(newSrc)
    \/ Close
    \/ OpenEffect
    \/ Mount
    \/ \E newSrc \in Sources : ChangeSrc(newSrc)
    \/ \E newCfg \in Configs : ChangeMinScale(newCfg)
    \/ LoadComplete
    \/ LoadError
    \/ \E s \in PinchOffsets : DialogOnPinch(s)
    \/ \E x \in DragOffsets, y \in DragOffsets : DialogOnDrag(x, y)
    \/ DialogOnPinchEnd
    \/ \E dy \in WheelDeltas : DialogOnWheel(dy)
    \/ DialogRenderStep

SpecProps == Init /\ [][NextProps]_vars

----------------------------------------------------------------------------
\* Instances created with options that break maxScale > minScale; nothing in
\* the code checks the options.

\* maxScale below minScale, maxScale equal to minScale.
MalformedConfigs ==
    { [minScale |-> 200, maxScale |-> 100, wheelSensitivity |-> 1],
      [minScale |-> 500, maxScale |-> 100, wheelSensitivity |-> 1],
      [minScale |-> 100, maxScale |-> 100, wheelSensitivity |-> 1],
      [minScale |-> 300, maxScale |-> 200, wheelSensitivity |-> 2] }

InitMalformed ==
    /\ component \in {"hook", "dialog"}
    /\ cfg \in MalformedConfigs
    /\ fresh = TRUE
    /\ hScale = HookInitialState(cfg).scale
    /\ hPosition = HookInitialState(cfg).position
    /\ hRender = HookRender(hScale, hPosition, cfg)
    /\ dScale = DialogInitialState(cfg).scale
    /\ dPosition = DialogInitialState(cfg).position
    /\ isLoading = DialogInitialState(cfg).isLoading
    /\ src \in Sources
    /\ IF component = "dialog"
         THEN /\ cfg.wheelSensitivity = DialogWheelSensitivity
              /\ open \in BOOLEAN
              /\ effectPending = TRUE
         ELSE /\ src = "a.jpg"
              /\ open = FALSE
              /\ effectPending = FALSE
    /\ mounted = open
    /\ loadPending = open
    /\ dRender = DialogRender(open, dScale, dPosition, isLoading, cfg)

SpecMalformed == InitMalformed /\ [][Next]_vars

----------------------------------------------------------------------------
\* The hook and the dialog side by side: the same minScale and maxScale, the
\* hook with wheelSensitivity 0.01, the dialog open with its content mounted
\* and its effects run, and every event and every render delivered to both.

PairBound == component = "pair" /\ open /\ mounted /\ ~effectPending

PairFrame ==
    /\ fresh' = FALSE
    /\ UNCHANGED <<component, cfg>>

PairOnPinch(s) ==
    PairBound /\ PairFrame /\ HookOnPinchUpdate(s) /\ DialogOnPinchUpdate(s)

PairOnDrag(x, y) ==
    PairBound /\ PairFrame /\ HookOnDragUpdate(x, y) /\ DialogOnDragUpdate(x, y)

PairOnPinchEnd ==
    PairBound /\ PairFrame /\ HookOnPinchEndUpdate /\ DialogOnPinchEndUpdate

PairOnWheel(dy) ==
    PairBound /\ PairFrame /\ HookOnWheelUpdate(dy) /\ DialogOnWheelUpdate(dy)

PairRenderStep ==
    /\ PairBound
    /\ PairFrame
    /\ \/ <<hRender.scale, hRender.position>> # <<hScale, hPosition>>
       \/ <<dRender.scale, dRender.position, dRender.loadingIndicator>>
             # <<dScale, dPosition, isLoading>>
    /\ hRender' = HookRender(hScale, hPosition, cfg)
    /\ dRender' = DialogRender(open, dScale, dPosition, isLoading, cfg)
    /\ UNCHANGED <<hScale, hPosition, open, src, dScale, dPosition, isLoading,
                   effectPending, mounted, loadPending>>

PairInit ==
    /\ component = "pair"
    /\ cfg \in Configs
    /\ cfg.wheelSensitivity = DialogWheelSensitivity
    /\ fresh = TRUE
    /\ hScale = HookInitialState(cfg).scale
    /\ hPosition = HookInitialState(cfg).position
    /\ hRender = HookRender(hScale, hPosition, cfg)
    /\ dScale = DialogInitialState(cfg).scale
    /\ dPosition = DialogInitialState(cfg).position
    /\ isLoading = DialogInitialState(cfg).isLoading
    /\ src \in Sources
    /\ open = TRUE
    /\ effectPending = FALSE
    /\ mounted = TRUE
    /\ loadPending = TRUE
    /\ dRender = DialogRender(open, dScale, dPosition, isLoading, cfg)

PairNext ==
    \/ \E s \in PinchOffsets : PairOnPinch(s)
    \/ \E x \in DragOffsets, y \in DragOffsets : PairOnDrag(x, y)
    \/ PairOnPinchEnd
    \/ \E dy \in WheelDeltas : PairOnWheel(dy)
    \/ PairRenderStep

SpecPair == PairInit /\ [][PairNext]_vars


----------------------------------------------------------------------------
\* Properties

DefaultConfig == [minScale |-> 100, maxScale |-> 500, wheelSensitivity |-> 1]

\* The nearest value of lo..hi to v, for lo < hi.
Nearest(v, lo, hi) == IF v < lo THEN lo ELSE IF v > hi THEN hi ELSE v

\* C1: with 0 < minScale < maxScale, in the hook and in the dialog, the scale
\* cell and the scale of the last render are within minScale..maxScale in
\* every reachable state.
C1_ScaleWithinBounds ==
    /\ 0 < cfg.minScale /\ cfg.minScale < cfg.maxScale
    /\ \A s \in {hScale, hRender.scale, dScale, dRender.scale} :
          cfg.minScale <= s /\ s <= cfg.maxScale

\* The dialog, image loaded, zoomed to maxScale and panned.
C1_Witness ==
    /\ component = "dialog"
    /\ ~isLoading
    /\ dScale = cfg.maxScale
    /\ dRender.scale = cfg.maxScale
    /\ dPosition # Origin

C3_CentredAtMinScale ==
    /\ hScale <= cfg.minScale => hPosition = Origin
    /\ hRender.scale <= cfg.minScale => hRender.position = Origin
    /\ dScale <= cfg.minScale => dPosition = Origin
    /\ dRender.scale <= cfg.minScale => dRender.position = Origin

\* C4: onDrag(x, y) sets position to {x, y} when the scale the component
\* holds (the scale of its last render) is > minScale and leaves scale and
\* position unchanged otherwise.
C4_DragIffZoomed ==
    [][ \A x \in DragOffsets, y \in DragOffsets :
          /\ HookOnDrag(x, y) =>
                IF hRender.scale > cfg.minScale
                  THEN hPosition' = [x |-> x, y |-> y] /\ hScale' = hScale
                  ELSE UNCHANGED hookVars
          /\ DialogOnDrag(x, y) =>
                IF dRender.scale > cfg.minScale
                  THEN dPosition' = [x |-> x, y |-> y] /\ dScale' = dScale
                  ELSE UNCHANGED dialogVars
      ]_vars

\* The hook zoomed in and panned away from the centre by a drag.
C4_Witness ==
    /\ component = "hook"
    /\ hRender.scale > cfg.minScale
    /\ hPosition = [x |-> 50, y |-> 0 - 50]

\* C5: onPinchEnd() sets position to {0,0} when the scale the component
\* holds (the scale of its last render) is <= minScale and leaves position
\* unchanged otherwise.
C5_PinchEndIffAtMin ==
    [][ /\ HookOnPinchEnd =>
              /\ hPosition' = IF hRender.scale <= cfg.minScale
                                THEN Origin ELSE hPosition
              /\ hScale' = hScale
        /\ DialogOnPinchEnd =>
              /\ dPosition' = IF dRender.scale <= cfg.minScale
                                THEN Origin ELSE dPosition
              /\ dScale' = dScale
      ]_vars

\* The dialog rendered at minScale and panned, recentred since that render:
\* in the mounted dialog only onPinchEnd writes {0,0} at minScale.
C5_Witness ==
    /\ GestureBound
    /\ dRender.scale = cfg.minScale
    /\ dScale = cfg.minScale
    /\ dRender.position # Origin
    /\ dPosition = Origin

\* C6: onPinch(s) yields scale = s for minScale <= s <= maxScale, minScale
\* for s < minScale and maxScale for s > maxScale, whatever scale was held.
C6_PinchClamps ==
    [][ \A s \in PinchOffsets :
          /\ HookOnPinch(s) =>
                hScale' = Nearest(s, cfg.minScale, cfg.maxScale)
          /\ DialogOnPinch(s) =>
                dScale' = Nearest(s, cfg.minScale, cfg.maxScale)
      ]_vars

\* With wheelSensitivity 0.02 the wheel moves the scale between 1 and 3 only:
\* the scale 2 comes from onPinch(2), here while the hook rendered maxScale.
C6_Witness ==
    /\ component = "hook"
    /\ cfg.wheelSensitivity = 2
    /\ hRender.scale = cfg.maxScale
    /\ hScale = 200

\* C7: onWheel(deltaY) yields the nearest value of minScale..maxScale to
\* scale - deltaY * wheelSensitivity, scale being the cell just before the
\* event; a negative deltaY never decreases scale, a positive one never
\* increases it; and with the default configuration onWheel(-100) takes
\* scale 1 to scale 2.
C7_WheelZoom ==
    [][ \A dy \in WheelDeltas :
          /\ HookOnWheel(dy) =>
                /\ hScale' = Nearest(hScale - dy * cfg.wheelSensitivity,
                                     cfg.minScale, cfg.maxScale)
                /\ dy < 0 => hScale' >= hScale
                /\ dy > 0 => hScale' <= hScale
                /\ (cfg = DefaultConfig /\ hScale = 100 /\ dy = 0 - 100)
                      => hScale' = 200
          /\ DialogOnWheel(dy) =>
                /\ dScale' = Nearest(dScale - dy * DialogWheelSensitivity,
                                     cfg.minScale, cfg.maxScale)
                /\ dy < 0 => dScale' >= dScale
                /\ dy > 0 => dScale' <= dScale
      ]_vars

\* Default configuration: two onWheel(-100) since the render at scale 1 (the
\* pinch offsets give 1, 2 and 5 only).
C7_Witness ==
    /\ component = "hook"
    /\ cfg = DefaultConfig
    /\ hRender.scale = 100
    /\ hScale = 300

\* C8: reset() yields scale = minScale and position = {0,0} from every state
\* of the hook, which are the cells of a fresh instance, and a second reset
\* changes nothing.
C8_ResetUnconditional ==
    [][ HookReset =>
          /\ hScale' = cfg.minScale
          /\ hPosition' = Origin
          /\ [scale |-> hScale', position |-> hPosition']
                = HookInitialState(cfg)
          /\ (hScale = cfg.minScale /\ hPosition = Origin)
                => UNCHANGED hookVars
      ]_vars

\* The hook rendered zoomed to maxScale and panned, its cells reset.
C8_Witness ==
    /\ component = "hook"
    /\ hRender.scale = cfg.maxScale
    /\ hRender.position = [x |-> 50, y |-> 50]
    /\ hScale = cfg.minScale
    /\ hPosition = Origin

\* C9: a newly created hook instance has scale = minScale of its
\* configuration (1 by default, 0.5 for minScale 0.5) and position = {0,0},
\* and its style is translate(0px, 0px) scale(minScale) with the transition
\* enabled.
C9_InitialState ==
    (fresh /\ component = "hook") =>
        /\ hScale = cfg.minScale
        /\ hPosition = Origin
        /\ hRender.scale = cfg.minScale
        /\ hRender.position = Origin
        /\ hRender.style.transition = "transform 0.2s ease-out"
        /\ cfg.minScale = 100 =>
              hRender.style.transform = "translate(0px, 0px) scale(1)"
        /\ cfg.minScale = 50 =>
              hRender.style.transform = "translate(0px, 0px) scale(0.5)"

\* A hook created with minScale 0.5.
C9_Witness ==
    /\ fresh
    /\ component = "hook"
    /\ cfg.minScale = 50
    /\ hScale = 50
    /\ hRender.style = [ transform  |-> "translate(0px, 0px) scale(0.5)",
                         transition |-> "transform 0.2s ease-out" ]

\* The style a render must hand out for the scale and position it hands out.
StyleOf(r) ==
    /\ r.style.transition =
          (IF r.scale = cfg.minScale THEN "transform 0.2s ease-out"
                                     ELSE "none")
    /\ r.style.transform = Transform(r.position, r.scale)
    /\ (r.position = [x |-> 50, y |-> 0 - 50] /\ r.scale = 150) =>
          r.style.transform = "translate(50px, -50px) scale(1.5)"
    /\ (r.position = [x |-> 0 - 50, y |-> 0] /\ r.scale = 200) =>
          r.style.transform = "translate(-50px, 0px) scale(2)"

\* C10: in every reachable state the style handed out with a scale and a
\* position encodes that position and scale, and its transition is
\* 'transform 0.2s ease-out' iff that scale = minScale and 'none' otherwise.
C10_StyleOfState == StyleOf(hRender) /\ StyleOf(dRender)

\* A hook with minScale 0.5 rendered at scale 1, panned: no transition.
C10_Witness ==
    /\ component = "hook"
    /\ cfg.minScale = 50
    /\ hRender.scale = 100
    /\ hRender.position = [x |-> 50, y |-> 0 - 50]
    /\ hRender.style = [ transform  |-> "translate(50px, -50px) scale(1)",
                         transition |-> "none" ]

\* C11: within an open cycle begun by a closed-to-open flip, isLoading goes
\* from true to false at most once, and only at the load-complete signal:
\* a true-to-false step is the img's load signal and changes nothing else;
\* such a cycle starts with the effect scheduled and the img out of the DOM,
\* the img is mounted only after the effect has run, and the effect is
\* scheduled only by a flip of the open prop; once isLoading is false after
\* the effect, it stays false for as long as the dialog stays open.
C11_LoadedOncePerCycle ==
    [][ /\ (isLoading /\ ~isLoading') =>
              /\ mounted /\ loadPending /\ ~loadPending'
              /\ UNCHANGED <<open, src, dScale, dPosition, dRender,
                             effectPending, mounted>>
        /\ (~open /\ open') => (effectPending' /\ ~mounted')
        /\ (~mounted /\ mounted') => ~effectPending
        /\ (~effectPending /\ effectPending') => open' # open
        /\ (open /\ open' /\ ~effectPending /\ ~isLoading) => ~isLoading'
      ]_vars

\* An open dialog whose image has loaded and whose img is loading another src:
\* a second load signal is on its way while isLoading is already false.
C11_Witness ==
    /\ component = "dialog"
    /\ open /\ mounted /\ ~effectPending
    /\ ~isLoading
    /\ loadPending

\* C12: the drag.enabled flag handed to the recognizer by a render equals
\* (scale > minScale) for the scale of that render, in the hook and in the
\* dialog: it is true once a render has seen the scale above minScale and
\* false once a render has seen it back at minScale; it is computed by the
\* render, not by the guard of onDrag.
C12_DragEnabledFollowsScale ==
    /\ hRender.dragEnabled <=> (hRender.scale > cfg.minScale)
    /\ dRender.dragEnabled <=> (dRender.scale > cfg.minScale)
    /\ (hRender.scale = hScale) => (hRender.dragEnabled <=> hScale > cfg.minScale)
    /\ (dRender.scale = dScale) => (dRender.dragEnabled <=> dScale > cfg.minScale)

\* The hook rendered at minScale again after a pan: the drag is disabled while
\* the position still shows that a drag went through earlier.
C12_Witness ==
    /\ component = "hook"
    /\ hRender.scale = cfg.minScale
    /\ hScale = cfg.minScale
    /\ hRender.position # Origin
    /\ ~hRender.dragEnabled

\* C13: the hook with wheelSensitivity 0.01 and the dialog, started with the
\* same minScale and maxScale and fed the same onPinch, onDrag, onPinchEnd
\* and onWheel events (and rendered at the same points), hold equal scale,
\* position, transform, transition and drag.enabled after every event.
C13_HookEqualsDialog ==
    /\ hScale = dScale
    /\ hPosition = dPosition
    /\ hRender.scale = dRender.scale
    /\ hRender.position = dRender.position
    /\ hRender.style.transform = dRender.style.transform
    /\ hRender.style.transition = dRender.style.transition
    /\ hRender.dragEnabled = dRender.dragEnabled

\* Both zoomed by the wheel to a scale no pinch offset gives, and panned.
C13_Witness ==
    /\ component = "pair"
    /\ cfg = DefaultConfig
    /\ hScale = 300 /\ dScale = 300
    /\ hRender.dragEnabled /\ dRender.dragEnabled
    /\ hPosition = [x |-> 50, y |-> 0 - 50]
    /\ dPosition = [x |-> 50, y |-> 0 - 50]

\* C14: every gesture event reads the state produced by the event right
\* before it, also with no render in between: onDrag and onPinchEnd decide on
\* the scale cell as the previous event left it, onWheel starts from it.  So
\* onPinch(10) with maxScale 5 followed at once by onDrag(50, 50) yields
\* position {50,50}, and a pinch down to minScale followed at once by
\* onPinchEnd yields position {0,0}.
C14_EventsReadLatestState ==
    [][ /\ \A x \in DragOffsets, y \in DragOffsets :
              HookOnDrag(x, y) =>
                  hPosition' = IF hScale > cfg.minScale
                                 THEN [x |-> x, y |-> y] ELSE hPosition
        /\ HookOnPinchEnd =>
              hPosition' = IF hScale <= cfg.minScale THEN Origin ELSE hPosition
        /\ \A dy \in WheelDeltas :
              HookOnWheel(dy) =>
                  hScale' = Nearest(hScale - dy * cfg.wheelSensitivity,
                                    cfg.minScale, cfg.maxScale)
        /\ \A x \in DragOffsets, y \in DragOffsets :
              DialogOnDrag(x, y) =>
                  dPosition' = IF dScale > cfg.minScale
                                 THEN [x |-> x, y |-> y] ELSE dPosition
        /\ DialogOnPinchEnd =>
              dPosition' = IF dScale <= cfg.minScale THEN Origin ELSE dPosition
        /\ \A dy \in WheelDeltas :
              DialogOnWheel(dy) =>
                  dScale' = Nearest(dScale - dy * DialogWheelSensitivity,
                                    cfg.minScale, cfg.maxScale)
      ]_vars

\* C15: the step from open to closed changes none of scale, position and
\* isLoading, and no step taken while the dialog is closed changes them: the
\* values are held until the opening after the next closed-to-open step
\* replaces them.
C15_CloseKeepsState ==
    [][ (component = "dialog" /\ (~open \/ ~open')) =>
            UNCHANGED <<dScale, dPosition, isLoading>> ]_vars

\* A closed dialog, its effect run, still holding a zoomed and panned view.
C15_Witness ==
    /\ component = "dialog"
    /\ ~open
    /\ ~effectPending
    /\ dScale > cfg.minScale
    /\ dPosition # Origin
    /\ ~isLoading

\* C16: the re-initialization runs only at a closed-to-open step: while open
\* stays true no render schedules the reset effect again, whatever caused the
\* render (a gesture's state change, a changed prop), so once an opening's
\* effect has run the dialog does not go from Loaded back to Opening without
\* being closed in between.
C16_ReinitOnlyAtOpen ==
    [][ component = "dialog" =>
          /\ (~effectPending /\ effectPending' /\ open') => ~open
          /\ (open /\ open' /\ ~effectPending /\ ~effectPending') =>
                (~isLoading => ~isLoading')
      ]_vars

\* C17: when the img never delivers load in an open cycle, isLoading stays
\* true for the whole cycle: no step other than the load handler (a gesture,
\* a render, a failed load, a src change, the close) makes it false.
C17_OnlyLoadClearsLoading ==
    [][ (component = "dialog" /\ isLoading /\ ~LoadComplete) => isLoading' ]_vars

\* The load has failed, the user has zoomed meanwhile, and the indicator is
\* still shown.
C17_Witness ==
    /\ component = "dialog"
    /\ open
    /\ mounted
    /\ ~effectPending
    /\ ~loadPending
    /\ isLoading
    /\ dScale > cfg.minScale
    /\ dRender.scale = dScale
    /\ dRender.loadingIndicator

\* A pinch or wheel event has been handled by the hook, by the dialog.
HookScaleEvent ==
    \/ \E s \in PinchOffsets : HookOnPinch(s)
    \/ \E dy \in WheelDeltas : HookOnWheel(dy)

DialogScaleEvent ==
    \/ \E s \in PinchOffsets : DialogOnPinch(s)
    \/ \E dy \in WheelDeltas : DialogOnWheel(dy)

HookPositionEvent ==
    \/ \E x \in DragOffsets, y \in DragOffsets : HookOnDrag(x, y)
    \/ HookOnPinchEnd

DialogPositionEvent ==
    \/ \E x \in DragOffsets, y \in DragOffsets : DialogOnDrag(x, y)
    \/ DialogOnPinchEnd

\* C19: each handler writes only its own component of the view state:
\* onPinch and onWheel leave position unchanged, onDrag and onPinchEnd leave
\* scale unchanged (a step that changes the position is no pinch or wheel
\* event, a step that changes the scale no drag or pinch-end event).
C19_HandlersWriteOwnPart ==
    [][ /\ hPosition' # hPosition => ~HookScaleEvent
        /\ hScale' # hScale => ~HookPositionEvent
        /\ dPosition' # dPosition => ~DialogScaleEvent
        /\ dScale' # dScale => ~DialogPositionEvent ]_vars

\* The dialog's view was panned at maxScale and a pinch or wheel event then
\* took the scale to minScale: the position is as the drag left it.
C19_Witness ==
    /\ GestureBound
    /\ dRender.scale = cfg.maxScale
    /\ dScale = cfg.minScale
    /\ dPosition = [x |-> 50, y |-> 0 - 50]
    /\ dRender.position = dPosition

\* C20: while the dialog is open, a render shows the loading indicator
\* exactly when it hides the img (both follow the isLoading it read), so one
\* of the two is visible and never both; and the img is in the DOM, only
\* hidden, while isLoading is true, so a load in progress can still be
\* delivered to the handler.
C20_IndicatorOrImage ==
    (component = "dialog" /\ dRender.open) =>
        /\ dRender.loadingIndicator <=> (dRender.style.visibility = "hidden")
        /\ ~dRender.loadingIndicator <=> (dRender.style.visibility = "visible")
        /\ (~effectPending /\ dRender.loadingIndicator = isLoading) =>
              (isLoading <=> dRender.style.visibility = "hidden")
        /\ loadPending => mounted
        /\ (mounted /\ loadPending /\ isLoading) => ENABLED LoadComplete

\* The open dialog renders the indicator over the hidden, mounted img whose
\* load is still in progress.
C20_Witness ==
    /\ component = "dialog"
    /\ open
    /\ dRender.open
    /\ ~effectPending
    /\ mounted
    /\ loadPending
    /\ isLoading
    /\ dRender.loadingIndicator
    /\ dRender.style.visibility = "hidden"

\* C21: in an open cycle in which the img has delivered load, the dialog is
\* Loaded (isLoading false) from then on until it is closed, whichever of
\* the reset effect and the load handler ran first after the content was
\* mounted: with the content mounted, no load in progress and isLoading
\* false, no step that keeps the dialog open makes isLoading true again.
C21_LoadedUntilClosed ==
    [][ ( /\ component = "dialog"
          /\ open /\ open'
          /\ mounted
          /\ ~loadPending /\ ~loadPending'
          /\ ~isLoading ) => ~isLoading' ]_vars

\* C22: in the dialog the loading flag and the view state are independent:
\* no gesture event changes isLoading (a step that changes it is none of
\* onPinch, onDrag, onPinchEnd, onWheel), and the load handler changes
\* neither scale nor position, so zoom and pan applied while loading are
\* still in effect once the dialog is Loaded.
C22_LoadingIndependentOfView ==
    [][ /\ isLoading' # isLoading =>
              ~(DialogScaleEvent \/ DialogPositionEvent)
        /\ LoadComplete => UNCHANGED <<dScale, dPosition>> ]_vars

\* The load has just been handled (the last render still shows the
\* indicator) and the zoom and pan of that render are still in the cells.
C22_Witness ==
    /\ component = "dialog"
    /\ open
    /\ mounted
    /\ ~effectPending
    /\ ~loadPending
    /\ ~isLoading
    /\ dRender.loadingIndicator
    /\ dRender.scale > cfg.minScale
    /\ dScale = dRender.scale
    /\ dPosition # Origin
    /\ dPosition = dRender.position

====
